---- MODULE Spec2Model ----
(***************************************************************************)
(* The measurement scripts of the repository: Task D (task_d.py: read one  *)
(* week file, total it per day, print the table) and Task E (task_e.py:    *)
(* read three week files, total each per day and per week, write           *)
(* summary.txt).  A run of either script is a behaviour of Spec.           *)
(*                                                                         *)
(* A text line is the sequence of its ';'-separated fields; a field is a   *)
(* token: an ISO-8601 timestamp, a decimal number, other text, or text     *)
(* that begins with a double quote that the line does not close.  Values   *)
(* are whole watt-hours (the floats of the source restricted to integers). *)
(* A Python dict is the sequence of its entries in insertion order.        *)
(***************************************************************************)
EXTENDS Integers, Sequences, FiniteSets, TLC

VARIABLES
    prog,           \* which script runs: "D" or "E"
    pc,             \* the statement the run is at
    fault,          \* "none", or the unhandled exception that ended the run
    raised_in,      \* the function whose statement raised it ("" if none)
    week_files,     \* Task E main: the week numbers in the order of the dict
    wi,             \* Task E main: index in week_files of the current week
    file,           \* the lines of the input file being read
    pos,            \* read_data: index of the next line to read
    handles,        \* the file handles that are open
    rd_out,         \* read_data's local list (rows / measurements)
    records,        \* main's rows (Task D) or measurements (Task E)
    idx,            \* aggregation loop: index of the next record
    daily,          \* the mapping date -> summary being built / returned
    week_sections,  \* Task E main: the formatted sections
    weekly_totals,  \* Task E main: week -> totals
    summary_txt,    \* the file summary.txt: [exists, text]
    summary_old,    \* summary.txt as it was when the run started
    stdout          \* the lines printed by Task D

vars == <<prog, pc, fault, raised_in, week_files, wi, file, pos, handles, rd_out, records,
          idx, daily, week_sections, weekly_totals, summary_txt, summary_old,
          stdout>>

---------------------------------------------------------------------------
(* Bounds *)

\* Most data lines (lines after the first) in a file read by Task D.
MaxLinesD == 3
\* Most data lines in a week file read by Task E.
MaxLinesE == 2

---------------------------------------------------------------------------
(* Fields and lines *)

Ts(d, h) == [k |-> "ts", a |-> d, b |-> h]     \* 2025-10-<d>T<h>:00:00
Num(v) == [k |-> "num", a |-> v, b |-> 0]      \* a decimal number
Txt == [k |-> "txt", a |-> 0, b |-> 0]         \* neither a number nor a timestamp
Quote == [k |-> "quote", a |-> 0, b |-> 0]     \* "b : opens a quote, never closes it

DataLine(d, h, v) ==
    <<Ts(d, h), Num(v[1]), Num(v[2]), Num(v[3]), Num(v[4]), Num(v[5]), Num(v[6])>>

ValsA == <<100, 200, 300, 10, 20, 30>>
ValsB == <<50, 50, 50, 5, 5, 5>>
ValsNeg == <<-100, 0, 0, 0, -10, 0>>

HeaderLine == <<Txt, Txt, Txt, Txt, Txt, Txt, Txt>>
ShortLine == <<Ts(13, 0), Num(100), Num(200), Num(300)>>
EmptyLine == <<>>
BadNumLine == <<Ts(14, 0), Num(100), Num(200), Txt, Num(10), Num(20), Num(30)>>
BadTsLine == <<Txt, Num(100), Num(200), Num(300), Num(10), Num(20), Num(30)>>
QuoteLine == <<Ts(13, 0), Quote>>
LongLine == DataLine(14, 1, ValsA) \o <<Num(99)>>

\* The first line of a file: the header, or a well-formed data row.
FirstLines == {HeaderLine, DataLine(13, 0, ValsA)}

LinesE == {DataLine(13, 0, ValsA), DataLine(14, 1, ValsB),
           ShortLine, BadNumLine, QuoteLine}

LinesD == LinesE \cup {DataLine(13, 1, ValsB), EmptyLine, BadTsLine,
                       LongLine, DataLine(14, 0, ValsNeg)}

SeqsUpTo(S, n) == UNION {[1..m -> S] : m \in 0..n}

\* The files a run may find: empty, or a first line and up to n data lines.
FilesOf(S, n) == {<<>>} \cup {<<h>> \o t : h \in FirstLines, t \in SeqsUpTo(S, n)}

FilesD == FilesOf(LinesD, MaxLinesD)
FilesE == FilesOf(LinesE, MaxLinesE)

---------------------------------------------------------------------------
(* Python dicts: entries in insertion order *)

EmptyDict == <<>>
Keys(m) == [i \in 1..Len(m) |-> m[i].key]
KeySet(m) == {m[i].key : i \in 1..Len(m)}
Has(m, k) == k \in KeySet(m)
Get(m, k) == m[CHOOSE i \in 1..Len(m) : m[i].key = k].val
Put(m, k, v) ==
    IF Has(m, k)
    THEN [i \in 1..Len(m) |-> IF m[i].key = k THEN [key |-> k, val |-> v] ELSE m[i]]
    ELSE Append(m, [key |-> k, val |-> v])

\* the keys as they come, with sorted() left out
unsorted(keys) == keys

\* sorted(keys): ascending, by repeated extraction of the least element
RECURSIVE SortedSeq(_)
SortedSeq(S) ==
    IF S = {} THEN <<>>
    ELSE LET least == CHOOSE x \in S : \A y \in S : x <= y
         IN <<least>> \o SortedSeq(S \ {least})

sorted(keys) == SortedSeq({keys[i] : i \in 1..Len(keys)})

---------------------------------------------------------------------------
(* Conversions *)

\* datetime.fromisoformat: only a timestamp parses
IsIso(tok) == tok.k = "ts"
fromisoformat(tok) == [date |-> tok.a, hour |-> tok.b]

\* float(): only a number parses
IsFloat(tok) == tok.k = "num"
float(tok) == tok.a

\* only the timestamp is converted strictly
Convertible_TimestampOnly(parts) == IsIso(parts[1])

Convertible(parts) == IsIso(parts[1]) /\ \A i \in 2..7 : IsFloat(parts[i])

---------------------------------------------------------------------------
(* Formatting *)

Abs(x) == IF x < 0 THEN -x ELSE x

\* f"{v:.2f}" with '.' replaced by ',', for v given in thousandths of a kWh:
\* sign, digits before the comma, the two digits after it.  When the dropped
\* digit is exactly 5 the binary value of the float decides the last digit;
\* tie records that the text is cents or cents + 1.
TwoDecimals(milli) ==
    LET q == Abs(milli) \div 10
        r == Abs(milli) % 10
        c == IF r > 5 THEN q + 1 ELSE q
    IN [neg |-> milli < 0, whole |-> c \div 100, cents |-> c % 100, tie |-> r = 5]

\* Task E: value_wh / 1000.0, kept exact as thousandths of a kWh
wh_to_kwh(value_wh) == value_wh
format_kwh_finnish(value_kwh) == TwoDecimals(value_kwh)
\* Task D: both steps in one function
format_kwh(value_wh) == TwoDecimals(value_wh)

\* 13 October 2025 is a Monday; the model's dates are days of that month
weekday(day) == (day - 13) % 7
weekday_name(day) ==
    <<"Monday", "Tuesday", "Wednesday", "Thursday", "Friday", "Saturday",
      "Sunday">>[weekday(day) + 1]
weekday_name_finnish(d) ==
    <<"monday", "tuesday", "wednesday", "thursday", "friday", "saturday",
      "sunday">>[weekday(d) + 1]
capitalize(s) ==
    CASE s = "monday" -> "Monday" [] s = "tuesday" -> "Tuesday"
      [] s = "wednesday" -> "Wednesday" [] s = "thursday" -> "Thursday"
      [] s = "friday" -> "Friday" [] s = "saturday" -> "Saturday"
      [] s = "sunday" -> "Sunday" [] OTHER -> s
\* dd.mm.yyyy
format_date_finnish(day) == <<day, 10, 2025>>
strftime(d) == <<d, 10, 2025>>

---------------------------------------------------------------------------
(* Files *)

\* the file opened without a with block and never closed
WithExit_Leaks(open_handles, f) == open_handles

\* "with open(...) as f": leaving the block, by its end or by an exception,
\* closes f
WithExit(open_handles, f) == open_handles \ {f}

---------------------------------------------------------------------------
(* Task D: task_d.py *)

ZeroD == [cons |-> <<0, 0, 0>>, prod |-> <<0, 0, 0>>]

\* the last line of the six adds prod_v2 a second time
AddD_WrongColumn(s, parts) ==
    [cons |-> <<s.cons[1] + float(parts[2]), s.cons[2] + float(parts[3]),
                s.cons[3] + float(parts[4])>>,
     prod |-> <<s.prod[1] + float(parts[5]), s.prod[2] + float(parts[6]),
                s.prod[3] + float(parts[6])>>]

\* daily[d]["cons"][0] += cons_v1 ... daily[d]["prod"][2] += prod_v3
AddD(s, parts) ==
    [cons |-> <<s.cons[1] + float(parts[2]), s.cons[2] + float(parts[3]),
                s.cons[3] + float(parts[4])>>,
     prod |-> <<s.prod[1] + float(parts[5]), s.prod[2] + float(parts[6]),
                s.prod[3] + float(parts[7])>>]

\* with open(filename, "r", encoding="utf-8") as f:
D_Open ==
    /\ prog = "D" /\ pc = "D_start"
    /\ \E f \in FilesD : file' = f
    /\ handles' = handles \cup {"in"}
    /\ pc' = "D_read"
    /\ UNCHANGED <<prog, fault, raised_in, week_files, wi, pos, rd_out, records, idx, daily,
                   week_sections, weekly_totals, summary_txt, summary_old, stdout>>

\* lines = [line.strip() for line in f], and the end of the with block
D_ReadLines ==
    /\ prog = "D" /\ pc = "D_read"
    /\ handles' = WithExit(handles, "in")
    /\ rd_out' = <<>>
    /\ pos' = 2
    /\ pc' = "D_filter"
    /\ UNCHANGED <<prog, fault, raised_in, week_files, wi, file, records, idx, daily,
                   week_sections, weekly_totals, summary_txt, summary_old, stdout>>

\* what one turn of "for line in lines[1:]" leaves in rows
D_Filtered(rows, line) ==
    IF line = <<>> THEN rows              \* if not line: continue
    ELSE IF Len(line) < 7 THEN rows       \* skip invalid lines
    ELSE Append(rows, line)

D_FilterLine ==
    /\ prog = "D" /\ pc = "D_filter" /\ pos <= Len(file)
    /\ rd_out' = D_Filtered(rd_out, file[pos])
    /\ pos' = pos + 1
    /\ UNCHANGED <<prog, pc, fault, raised_in, week_files, wi, file, handles, records, idx,
                   daily, week_sections, weekly_totals, summary_txt, summary_old,
                   stdout>>

\* return rows; main: daily_totals = calculate_daily_totals(rows)
D_ReadReturn ==
    /\ prog = "D" /\ pc = "D_filter" /\ pos > Len(file)
    /\ records' = rd_out
    /\ daily' = EmptyDict
    /\ idx' = 1
    /\ pc' = "D_agg"
    /\ UNCHANGED <<prog, fault, raised_in, week_files, wi, file, pos, handles, rd_out,
                   week_sections, weekly_totals, summary_txt, summary_old, stdout>>

\* the dict after one turn of "for parts in rows" that raised nothing
D_Accumulate(dly, parts) ==
    LET d == fromisoformat(parts[1]).date
        dly1 == IF ~Has(dly, d) THEN Put(dly, d, ZeroD) ELSE dly
    IN Put(dly1, d, AddD(Get(dly1, d), parts))

D_AggRow ==
    /\ prog = "D" /\ pc = "D_agg" /\ idx <= Len(records)
    /\ IF Convertible(records[idx])
       THEN /\ daily' = D_Accumulate(daily, records[idx])
            /\ idx' = idx + 1
            /\ UNCHANGED <<pc, fault, raised_in>>
       ELSE /\ fault' = "ValueError"      \* fromisoformat or float raised
            /\ raised_in' = "calculate_daily_totals"
            /\ pc' = "aborted"
            /\ UNCHANGED <<daily, idx>>
    /\ UNCHANGED <<prog, week_files, wi, file, pos, handles, rd_out, records,
                   week_sections, weekly_totals, summary_txt, summary_old, stdout>>

\* return daily
D_AggReturn ==
    /\ prog = "D" /\ pc = "D_agg" /\ idx > Len(records)
    /\ pc' = "D_print"
    /\ UNCHANGED <<prog, fault, raised_in, week_files, wi, file, pos, handles, rd_out, records,
                   idx, daily, week_sections, weekly_totals, summary_txt,
                   summary_old, stdout>>

D_ReportRow(daily_totals, d) ==
    LET data == Get(daily_totals, d)
    IN [kind |-> "row",
        day |-> capitalize(weekday_name_finnish(d)),
        date |-> strftime(d),
        cons |-> <<format_kwh(data.cons[1]), format_kwh(data.cons[2]),
                   format_kwh(data.cons[3])>>,
        prod |-> <<format_kwh(data.prod[1]), format_kwh(data.prod[2]),
                   format_kwh(data.prod[3])>>]

\* the loop over the sorted days starts at the second day
print_report_SkipsFirst(daily_totals) ==
    LET days == sorted(Keys(daily_totals))
    IN <<[kind |-> "title", week |-> 42], [kind |-> "columns"],
         [kind |-> "units"], [kind |-> "rule"]>>
       \o [i \in 1..(Len(days) - 1) |-> D_ReportRow(daily_totals, days[i + 1])]

\* the lines print_report prints
print_report(daily_totals) ==
    LET days == sorted(Keys(daily_totals))
    IN <<[kind |-> "title", week |-> 42], [kind |-> "columns"],
         [kind |-> "units"], [kind |-> "rule"]>>
       \o [i \in 1..Len(days) |-> D_ReportRow(daily_totals, days[i])]

D_Print ==
    /\ prog = "D" /\ pc = "D_print"
    /\ stdout' = stdout \o print_report(daily)
    /\ pc' = "done"
    /\ UNCHANGED <<prog, fault, raised_in, week_files, wi, file, pos, handles, rd_out, records,
                   idx, daily, week_sections, weekly_totals, summary_txt,
                   summary_old>>

---------------------------------------------------------------------------
(* Task E: task_e.py *)

\* csv.reader(f, delimiter=";") with the default dialect (quotechar '"',
\* not strict): the row that starts at line p of lines, and the line after it.
\* A field that begins with a quote runs on, across delimiters and line ends,
\* to the next quote or to the end of the file; what follows the closing quote
\* up to the next delimiter belongs to the same field.  Such a field is text.
RECURSIVE CsvScan(_, _, _, _, _)
CsvScan(lines, p, i, row, quoted) ==
    IF p > Len(lines) THEN [row |-> Append(row, Txt), next |-> p]
    ELSE IF i > Len(lines[p])
         THEN IF quoted THEN CsvScan(lines, p + 1, 1, row, TRUE)
              ELSE [row |-> row, next |-> p + 1]
    ELSE IF quoted
         THEN IF lines[p][i] = Quote
              THEN CsvScan(lines, p, i + 1, Append(row, Txt), FALSE)
              ELSE CsvScan(lines, p, i + 1, row, TRUE)
    ELSE IF lines[p][i] = Quote
         THEN CsvScan(lines, p, i + 1, row, TRUE)
         ELSE CsvScan(lines, p, i + 1, Append(row, lines[p][i]), FALSE)

CsvRow(lines, p) == CsvScan(lines, p, 1, <<>>, FALSE)

Measurement(row) ==
    [timestamp |-> fromisoformat(row[1]),
     cons_v1 |-> float(row[2]), cons_v2 |-> float(row[3]), cons_v3 |-> float(row[4]),
     prod_v1 |-> float(row[5]), prod_v2 |-> float(row[6]), prod_v3 |-> float(row[7])]

ZeroE == [cons_v1 |-> 0, cons_v2 |-> 0, cons_v3 |-> 0,
          prod_v1 |-> 0, prod_v2 |-> 0, prod_v3 |-> 0]

\* cons_v2 is assigned, not added
AddE_Assigns(s, m) ==
    [cons_v1 |-> s.cons_v1 + m.cons_v1, cons_v2 |-> m.cons_v2,
     cons_v3 |-> s.cons_v3 + m.cons_v3, prod_v1 |-> s.prod_v1 + m.prod_v1,
     prod_v2 |-> s.prod_v2 + m.prod_v2, prod_v3 |-> s.prod_v3 + m.prod_v3]

\* daily[d]["cons_v1"] += m.cons_v1 ... daily[d]["prod_v3"] += m.prod_v3
AddE(s, m) ==
    [cons_v1 |-> s.cons_v1 + m.cons_v1, cons_v2 |-> s.cons_v2 + m.cons_v2,
     cons_v3 |-> s.cons_v3 + m.cons_v3, prod_v1 |-> s.prod_v1 + m.prod_v1,
     prod_v2 |-> s.prod_v2 + m.prod_v2, prod_v3 |-> s.prod_v3 + m.prod_v3]

\* the loop stops one week early
LoopDone_Early == wi >= Len(week_files)

\* main: "for week, filename in week_files.items()" has run out of weeks
LoopDone == wi > Len(week_files)

\* main: for week, filename in week_files.items(): read_data(filename);
\* read_data: measurements = []; with open(filename, ...) as f
E_Open ==
    /\ prog = "E" /\ pc = "E_open" /\ ~LoopDone
    /\ \E f \in FilesE : file' = f
    /\ handles' = handles \cup {"in"}
    /\ rd_out' = <<>>
    /\ pos' = 1
    /\ pc' = "E_header"
    /\ UNCHANGED <<prog, fault, raised_in, week_files, wi, records, idx, daily, week_sections,
                   weekly_totals, summary_txt, summary_old, stdout>>

\* next(reader, None)
E_SkipHeader ==
    /\ prog = "E" /\ pc = "E_header"
    /\ pos' = IF pos <= Len(file) THEN CsvRow(file, pos).next ELSE pos
    /\ pc' = "E_rows"
    /\ UNCHANGED <<prog, fault, raised_in, week_files, wi, file, handles, rd_out, records, idx,
                   daily, week_sections, weekly_totals, summary_txt, summary_old,
                   stdout>>

\* one turn of "for row in reader" that starts at line p with the list out:
\* whether a conversion raised, the list, and the line the reader is at
E_Turn(lines, p, out) ==
    LET r == CsvRow(lines, p)
    IN IF Len(r.row) < 7                                   \* continue
       THEN [raised |-> FALSE, out |-> out, next |-> r.next]
       ELSE IF Convertible(r.row)
       THEN [raised |-> FALSE, out |-> Append(out, Measurement(r.row)),
             next |-> r.next]
       ELSE [raised |-> TRUE, out |-> out, next |-> p]

\* an exception leaves the with block
E_ReadRow ==
    /\ prog = "E" /\ pc = "E_rows" /\ pos <= Len(file)
    /\ LET t == E_Turn(file, pos, rd_out)
       IN IF ~t.raised
          THEN /\ rd_out' = t.out
               /\ pos' = t.next
               /\ UNCHANGED <<pc, fault, raised_in, handles>>
          ELSE /\ fault' = "ValueError"
               /\ raised_in' = "read_data"
               /\ pc' = "aborted"
               /\ handles' = WithExit(handles, "in")
               /\ UNCHANGED <<rd_out, pos>>
    /\ UNCHANGED <<prog, week_files, wi, file, records, idx, daily, week_sections,
                   weekly_totals, summary_txt, summary_old, stdout>>

\* the end of the with block; return measurements;
\* main: daily = calculate_daily_summaries(measurements)
E_ReadReturn ==
    /\ prog = "E" /\ pc = "E_rows" /\ pos > Len(file)
    /\ handles' = WithExit(handles, "in")
    /\ records' = rd_out
    /\ daily' = EmptyDict
    /\ idx' = 1
    /\ pc' = "E_agg"
    /\ UNCHANGED <<prog, fault, raised_in, week_files, wi, file, pos, rd_out, week_sections,
                   weekly_totals, summary_txt, summary_old, stdout>>

\* the dict after one turn of "for m in measurements"
E_Accumulate(dly, m) ==
    LET d == m.timestamp.date
        dly1 == IF ~Has(dly, d) THEN Put(dly, d, ZeroE) ELSE dly
    IN Put(dly1, d, AddE(Get(dly1, d), m))

E_AggRecord ==
    /\ prog = "E" /\ pc = "E_agg" /\ idx <= Len(records)
    /\ daily' = E_Accumulate(daily, records[idx])
    /\ idx' = idx + 1
    /\ UNCHANGED <<prog, pc, fault, raised_in, week_files, wi, file, pos, handles, rd_out,
                   records, week_sections, weekly_totals, summary_txt, summary_old,
                   stdout>>

\* return daily
E_AggReturn ==
    /\ prog = "E" /\ pc = "E_agg" /\ idx > Len(records)
    /\ pc' = "E_format"
    /\ UNCHANGED <<prog, fault, raised_in, week_files, wi, file, pos, handles, rd_out, records,
                   idx, daily, week_sections, weekly_totals, summary_txt,
                   summary_old, stdout>>

E_Cells(s) ==
    [cons |-> <<format_kwh_finnish(wh_to_kwh(s.cons_v1)),
                format_kwh_finnish(wh_to_kwh(s.cons_v2)),
                format_kwh_finnish(wh_to_kwh(s.cons_v3))>>,
     prod |-> <<format_kwh_finnish(wh_to_kwh(s.prod_v1)),
                format_kwh_finnish(wh_to_kwh(s.prod_v2)),
                format_kwh_finnish(wh_to_kwh(s.prod_v3))>>]

E_ReportRow(daily_summaries, day) ==
    LET c == E_Cells(Get(daily_summaries, day))
    IN [kind |-> "row", day |-> weekday_name(day),
        date |-> format_date_finnish(day), cons |-> c.cons, prod |-> c.prod]

format_week_section(week_number, daily_summaries) ==
    LET days == sorted(Keys(daily_summaries))
    IN <<[kind |-> "title", week |-> week_number], [kind |-> "columns"],
         [kind |-> "units"], [kind |-> "rule"]>>
       \o [i \in 1..Len(days) |-> E_ReportRow(daily_summaries, days[i])]
       \o <<[kind |-> "blank"]>>

\* week_sections.append(format_week_section(week, daily))
E_Format ==
    /\ prog = "E" /\ pc = "E_format"
    /\ week_sections' = Append(week_sections,
                               format_week_section(week_files[wi], daily))
    /\ pc' = "E_sum"
    /\ UNCHANGED <<prog, fault, raised_in, week_files, wi, file, pos, handles, rd_out, records,
                   idx, daily, weekly_totals, summary_txt, summary_old, stdout>>

\* totals after the first n entries of daily_summaries.values()
RECURSIVE SumEntries(_, _)
SumEntries(daily_summaries, n) ==
    IF n = 0 THEN ZeroE
    ELSE LET t == SumEntries(daily_summaries, n - 1)
             day_summary == daily_summaries[n].val
         IN [key \in DOMAIN t |-> t[key] + day_summary[key]]

\* totals is not reset: it starts from the totals of the week before
sum_week_totals_Carries(daily_summaries) ==
    LET t == SumEntries(daily_summaries, Len(daily_summaries))
        base == IF weekly_totals = EmptyDict THEN ZeroE
                ELSE weekly_totals[Len(weekly_totals)].val
    IN [key \in DOMAIN t |-> t[key] + base[key]]

sum_week_totals(daily_summaries) == SumEntries(daily_summaries, Len(daily_summaries))

\* weekly_totals[week] = sum_week_totals(daily), and the next turn of the loop
E_SumWeek ==
    /\ prog = "E" /\ pc = "E_sum"
    /\ weekly_totals' = Put(weekly_totals, week_files[wi], sum_week_totals(daily))
    /\ wi' = wi + 1
    /\ pc' = "E_open"
    /\ UNCHANGED <<prog, fault, raised_in, week_files, file, pos, handles, rd_out, records, idx,
                   daily, week_sections, summary_txt, summary_old, stdout>>

\* write_report: with open(filename, "w", encoding="utf-8") as f
E_WriteOpen ==
    /\ prog = "E" /\ pc = "E_open" /\ LoopDone
    /\ summary_txt' = [exists |-> TRUE, text |-> <<>>]
    /\ handles' = handles \cup {"out"}
    /\ pc' = "E_wsections"
    /\ UNCHANGED <<prog, fault, raised_in, week_files, wi, file, pos, rd_out, records, idx,
                   daily, week_sections, weekly_totals, summary_old, stdout>>

RECURSIVE Flatten(_)
Flatten(sections) ==
    IF sections = <<>> THEN <<>> ELSE Head(sections) \o Flatten(Tail(sections))

\* for section in week_sections: for line in section: f.write(line + "\n")
E_WriteSections ==
    /\ prog = "E" /\ pc = "E_wsections"
    /\ summary_txt' = [summary_txt EXCEPT !.text = @ \o Flatten(week_sections)]
    /\ pc' = "E_wsummary"
    /\ UNCHANGED <<prog, fault, raised_in, week_files, wi, file, pos, handles, rd_out, records,
                   idx, daily, week_sections, weekly_totals, summary_old, stdout>>

E_SummaryRow(totals, week) ==
    LET c == E_Cells(Get(totals, week))
    IN [kind |-> "week", week |-> week, cons |-> c.cons, prod |-> c.prod]

\* the combined summary write_report writes after the sections
CombinedSummary(totals) ==
    LET weeks == sorted(Keys(totals))
    IN <<[kind |-> "title", week |-> 0], [kind |-> "columns"], [kind |-> "rule"]>>
       \o [i \in 1..Len(weeks) |-> E_SummaryRow(totals, weeks[i])]

E_WriteSummary ==
    /\ prog = "E" /\ pc = "E_wsummary"
    /\ summary_txt' = [summary_txt EXCEPT !.text = @ \o CombinedSummary(weekly_totals)]
    /\ pc' = "E_wclose"
    /\ UNCHANGED <<prog, fault, raised_in, week_files, wi, file, pos, handles, rd_out, records,
                   idx, daily, week_sections, weekly_totals, summary_old, stdout>>

\* the end of the with block of write_report; main returns
E_WriteClose ==
    /\ prog = "E" /\ pc = "E_wclose"
    /\ handles' = WithExit(handles, "out")
    /\ pc' = "done"
    /\ UNCHANGED <<prog, fault, raised_in, week_files, wi, file, pos, rd_out, records, idx,
                   daily, week_sections, weekly_totals, summary_txt, summary_old,
                   stdout>>

---------------------------------------------------------------------------
(* Both scripts *)

\* open() of an input file that does not exist: nothing catches the error
MissingInput ==
    /\ \/ prog = "D" /\ pc = "D_start"
       \/ prog = "E" /\ pc = "E_open" /\ ~LoopDone
    /\ fault' = "FileNotFoundError"
    /\ raised_in' = "read_data"
    /\ pc' = "aborted"
    /\ UNCHANGED <<prog, week_files, wi, file, pos, handles, rd_out, records, idx,
                   daily, week_sections, weekly_totals, summary_txt, summary_old,
                   stdout>>

\* week_files of main, and the same dict written in another order
WeekOrders == {<<41, 42, 43>>, <<43, 41, 42>>}

Absent == [exists |-> FALSE, text |-> <<>>]
OldReport == [exists |-> TRUE, text |-> <<[kind |-> "old"]>>]

Init ==
    /\ prog \in {"D", "E"}
    /\ pc = IF prog = "D" THEN "D_start" ELSE "E_open"
    /\ fault = "none"
    /\ raised_in = ""
    /\ week_files \in IF prog = "E" THEN WeekOrders ELSE {<<>>}
    /\ wi = 1
    /\ file = <<>>
    /\ pos = 1
    /\ handles = {}
    /\ rd_out = <<>>
    /\ records = <<>>
    /\ idx = 1
    /\ daily = EmptyDict
    /\ week_sections = <<>>
    /\ weekly_totals = EmptyDict
    /\ summary_txt \in IF prog = "E" THEN {Absent, OldReport} ELSE {Absent}
    /\ summary_old = summary_txt
    /\ stdout = <<>>

Next ==
    \/ MissingInput
    \/ D_Open \/ D_ReadLines \/ D_FilterLine \/ D_ReadReturn
    \/ D_AggRow \/ D_AggReturn \/ D_Print
    \/ E_Open \/ E_SkipHeader \/ E_ReadRow \/ E_ReadReturn
    \/ E_AggRecord \/ E_AggReturn \/ E_Format \/ E_SumWeek
    \/ E_WriteOpen \/ E_WriteSections \/ E_WriteSummary \/ E_WriteClose

Spec == Init /\ [][Next]_vars

---------------------------------------------------------------------------
(* The readers as functions of the file *)

\* Task D read_data: rows after lines[1..n]
RECURSIVE D_Rows(_, _)
D_Rows(lines, n) ==
    IF n <= 1 THEN <<>> ELSE D_Filtered(D_Rows(lines, n - 1), lines[n])

D_read_data(lines) == [raised |-> FALSE, out |-> D_Rows(lines, Len(lines))]

\* Task E read_data: the loop from line p on, with the list out
RECURSIVE E_Rows(_, _, _)
E_Rows(lines, p, out) ==
    IF p > Len(lines) THEN [raised |-> FALSE, out |-> out]
    ELSE LET t == E_Turn(lines, p, out)
         IN IF t.raised THEN [raised |-> TRUE, out |-> <<>>]
            ELSE E_Rows(lines, t.next, t.out)

E_read_data(lines) ==
    E_Rows(lines, IF lines = <<>> THEN 1 ELSE CsvRow(lines, 1).next, <<>>)

read_data(lines) == IF prog = "D" THEN D_read_data(lines) ELSE E_read_data(lines)

\* the rows csv.reader yields from line p on
RECURSIVE CsvRows(_, _)
CsvRows(lines, p) ==
    IF p > Len(lines) THEN <<>>
    ELSE LET r == CsvRow(lines, p) IN <<r.row>> \o CsvRows(lines, r.next)

---------------------------------------------------------------------------
(* What the properties speak of *)

Fields == 1..6

\* a record's calendar date and its six values, in either script
RecDate(r) == IF prog = "D" THEN r[1].a ELSE r.timestamp.date
RecVals(r) ==
    IF prog = "D" THEN [j \in Fields |-> r[j + 1].a]
    ELSE <<r.cons_v1, r.cons_v2, r.cons_v3, r.prod_v1, r.prod_v2, r.prod_v3>>
RecDates(recs) == {RecDate(recs[i]) : i \in 1..Len(recs)}

\* a summary's six totals, in either script
SumVals(s) ==
    IF prog = "D" THEN s.cons \o s.prod
    ELSE <<s.cons_v1, s.cons_v2, s.cons_v3, s.prod_v1, s.prod_v2, s.prod_v3>>

\* field j summed over those of recs[1..n] that fall on a date of D
RECURSIVE SumOver(_, _, _, _)
SumOver(recs, n, D, j) ==
    IF n = 0 THEN 0
    ELSE SumOver(recs, n - 1, D, j)
         + (IF RecDate(recs[n]) \in D THEN RecVals(recs[n])[j] ELSE 0)

\* field j summed over the summaries of the dates in D
RECURSIVE DaySum(_, _, _)
DaySum(dly, D, j) ==
    IF D = {} THEN 0
    ELSE LET d == CHOOSE x \in D : TRUE
         IN SumVals(Get(dly, d))[j] + DaySum(dly, D \ {d}, j)

WellFormed(parts) ==
    /\ Len(parts) >= 7
    /\ parts[1].k = "ts"
    /\ \A i \in 2..7 : parts[i].k = "num"

AtLeast7(line) == Len(line) >= 7
IsRow(l) == l.kind = "row"
IsWeekRow(l) == l.kind = "week"
IsTitle(l) == l.kind = "title"
RowDate(l) == l.date[3] * 10000 + l.date[2] * 100 + l.date[1]
Ascending(q) == \A i \in 1..(Len(q) - 1) : q[i] < q[i + 1]
RemoveAt(q, i) == SubSeq(q, 1, i - 1) \o SubSeq(q, i + 1, Len(q))
DataLines(lines) == IF lines = <<>> THEN <<>> ELSE Tail(lines)
Range(q) == {q[i] : i \in 1..Len(q)}

\* read_data has returned and main holds what it returned for file
ReadReturned == (prog = "D" /\ pc = "D_agg") \/ (prog = "E" /\ pc = "E_agg")
\* the aggregation has returned and main holds the mapping for records
AggReturned ==
    \/ prog = "D" /\ pc \in {"D_print", "done"}
    \/ prog = "E" /\ pc \in {"E_format", "E_sum"}

---------------------------------------------------------------------------
(* Properties *)

\* C1: when the daily aggregation has returned, the keys of the mapping are
\* exactly the calendar dates of the records, one entry per date, and each of
\* the six totals of a date is the sum of that field over all the records of
\* that date, whatever their hour.
C1_DailyTotals ==
    AggReturned =>
        /\ KeySet(daily) = RecDates(records)
        /\ Len(daily) = Cardinality(RecDates(records))
        /\ \A d \in KeySet(daily) : \A j \in Fields :
              SumVals(Get(daily, d))[j] = SumOver(records, Len(records), {d}, j)

\* C1 witness: Task D has totalled the two rows of the 13th, 00:00 and 01:00.
C1_Witness ==
    /\ prog = "D" /\ pc = "D_print"
    /\ records = <<DataLine(13, 0, ValsA), DataLine(13, 1, ValsB)>>
    /\ daily = <<[key |-> 13,
                  val |-> [cons |-> <<150, 250, 350>>, prod |-> <<15, 25, 35>>]]>>

\* C3: when read_data has returned, for every data line with fewer than 7
\* fields the records are those read_data returns for the same file without
\* that line.
C3_ShortLineSkipped ==
    ReadReturned =>
        \A i \in 2..Len(file) :
            Len(file[i]) < 7 =>
                read_data(RemoveAt(file, i)) = [raised |-> FALSE, out |-> records]

\* C7: when read_data has returned, the records are one per line after the
\* first that has at least 7 fields, in line order, duplicates kept; the first
\* line is never among them.
C7_OneRecordPerLine ==
    ReadReturned =>
        LET kept == SelectSeq(DataLines(file), AtLeast7)
        IN records = IF prog = "D" THEN kept
                     ELSE [i \in 1..Len(kept) |-> Measurement(kept[i])]

\* a step that changes weekly_totals appends the current week's totals
C2_Step ==
    weekly_totals' # weekly_totals =>
        /\ prog = "E"
        /\ Len(weekly_totals') = Len(weekly_totals) + 1
        /\ SubSeq(weekly_totals', 1, Len(weekly_totals)) = weekly_totals
        /\ weekly_totals'[Len(weekly_totals')].key = week_files[wi]
        /\ \A j \in Fields :
              /\ SumVals(weekly_totals'[Len(weekly_totals')].val)[j]
                    = DaySum(daily, KeySet(daily), j)
              /\ SumVals(weekly_totals'[Len(weekly_totals')].val)[j]
                    = SumOver(records, Len(records), RecDates(records), j)

\* C2: every change of weekly_totals in Task E's main adds the entry of the
\* current week and leaves the entries of the other weeks as they were, and
\* each of the six totals of the new entry is the sum of that field over the
\* daily summaries of the current week, which is the sum over the records read
\* from the current week's file.
C2_WeeklyRollup == [][C2_Step]_vars

\* C2 witness: three weeks are totalled, the second over two days, and the
\* three totals differ.
C2_Witness ==
    /\ prog = "E" /\ pc = "E_open" /\ Len(weekly_totals) = 3
    /\ weekly_totals[1].val.cons_v1 = 100
    /\ weekly_totals[2].val.cons_v1 = 150
    /\ weekly_totals[3].val.cons_v1 = 200
    /\ Len(week_sections[2]) = 7

\* C4: the report of a file has exactly one date row for each calendar date
\* of the parsed records and no other row; a file of one line gives an empty
\* mapping and no date row.
C4_RowPerDate ==
    LET Holds(lines) ==
            LET rws == SelectSeq(lines, IsRow)
            IN /\ Len(rws) = Cardinality(RecDates(records))
               /\ {rws[i].date[1] : i \in 1..Len(rws)} = RecDates(records)
               /\ Len(file) <= 1 => daily = EmptyDict /\ rws = <<>>
    IN /\ prog = "D" /\ pc = "done" => Holds(stdout)
       /\ prog = "E" /\ pc = "E_sum" => Holds(week_sections[Len(week_sections)])

\* C4 witness: Task D has printed two date rows for three records.
C4_Witness ==
    /\ prog = "D" /\ pc = "done"
    /\ Len(records) = 3
    /\ Cardinality(RecDates(records)) = 2
    /\ Len(SelectSeq(stdout, IsRow)) = 2

\* C5: in every table the date rows are in strictly ascending date order, and
\* the rows of the combined summary in summary.txt are in strictly ascending
\* week order.
C5_Ascending ==
    LET DatesOf(lines) ==
            LET rws == SelectSeq(lines, IsRow)
            IN [i \in 1..Len(rws) |-> RowDate(rws[i])]
        WeeksOf(lines) ==
            LET rws == SelectSeq(lines, IsWeekRow)
            IN [i \in 1..Len(rws) |-> rws[i].week]
    IN /\ Ascending(DatesOf(stdout))
       /\ \A k \in 1..Len(week_sections) : Ascending(DatesOf(week_sections[k]))
       /\ Ascending(WeeksOf(summary_txt.text))
       /\ pc = "done" /\ prog = "E" =>
             Len(WeeksOf(summary_txt.text)) = Len(week_files)

\* C5 witness: the report is written; the weeks were processed 43, 41, 42 and
\* the last week's file had the 14th before the 13th.
C5_Witness ==
    /\ prog = "E" /\ pc = "done"
    /\ week_files = <<43, 41, 42>>
    /\ Keys(daily) = <<14, 13>>
    /\ Len(SelectSeq(week_sections[3], IsRow)) = 2

\* C6 as stated: a conversion failure is raised inside read_data, which
\* returns no records and leaves the line and those after it unread, and the
\* run has no report output.
C6_AbortsTheRead ==
    fault = "ValueError" =>
        /\ raised_in = "read_data"
        /\ prog = "D" => records = <<>>
        /\ pos <= Len(file)
        /\ stdout = <<>> /\ summary_txt = summary_old

\* what holds in a run ended by a conversion failure
C6_AtFault ==
    fault = "ValueError" =>
        /\ pc = "aborted"
        /\ stdout = <<>> /\ summary_txt = summary_old
        /\ prog = "E" =>
              /\ raised_in = "read_data"
              /\ pos <= Len(file)
              /\ Len(CsvRow(file, pos).row) >= 7
              /\ ~WellFormed(CsvRow(file, pos).row)
              /\ Len(week_sections) = wi - 1 /\ Len(weekly_totals) = wi - 1
        /\ prog = "D" =>
              /\ raised_in = "calculate_daily_totals"
              /\ pos = Len(file) + 1
              /\ records = SelectSeq(DataLines(file), AtLeast7)
              /\ idx <= Len(records)
              /\ ~WellFormed(records[idx])
              /\ \A i \in 1..(idx - 1) : WellFormed(records[i])

\* no run gets past a row of 7 fields or more that does not convert
C6_NoneSurvives ==
    /\ prog = "D" /\ pc \in {"D_print", "done"} =>
          \A i \in 1..Len(records) : WellFormed(records[i])
    /\ prog = "E" /\ pc \in {"E_agg", "E_format", "E_sum"} =>
          LET rws == CsvRows(file, 1)
          IN \A i \in 2..Len(rws) : Len(rws[i]) >= 7 => WellFormed(rws[i])

\* the step that raises the failure hands main nothing
C6_FaultStep ==
    fault' = "ValueError" /\ fault = "none" =>
        /\ records' = records /\ daily' = daily
        /\ week_sections' = week_sections /\ weekly_totals' = weekly_totals

\* C6, amended: a row of 7 fields or more that does not convert ends the run
\* with no report output.  In Task E the failure is raised inside read_data:
\* the row and the lines after it stay unread and main receives no records of
\* that file.  In Task D read_data converts nothing and returns every line of
\* 7 fields or more, the bad one and those after it included; the failure is
\* raised by calculate_daily_totals at the first such row and no mapping is
\* returned.
C6_Amended == [](C6_AtFault /\ C6_NoneSurvives) /\ [][C6_FaultStep]_vars

\* C6 witness: Task D has stopped at the second of three returned rows.
C6_Witness ==
    /\ prog = "D" /\ fault = "ValueError"
    /\ Len(records) = 3 /\ idx = 2
    /\ daily # EmptyDict

\* every summary holds the full set of fields
C8_FullKeys ==
    \A i \in 1..Len(daily) :
        IF prog = "D"
        THEN /\ DOMAIN daily[i].val = {"cons", "prod"}
             /\ Len(daily[i].val.cons) = 3 /\ Len(daily[i].val.prod) = 3
        ELSE DOMAIN daily[i].val = {"cons_v1", "cons_v2", "cons_v3",
                                    "prod_v1", "prod_v2", "prod_v3"}

\* what one turn of the aggregation loop does to the mapping
C8_Turn ==
    pc \in {"D_agg", "E_agg"} /\ idx' = idx + 1 =>
        LET d == RecDate(records[idx])
            v == RecVals(records[idx])
        IN /\ KeySet(daily') = KeySet(daily) \cup {d}
           /\ \A e \in KeySet(daily) \ {d} : Get(daily', e) = Get(daily, e)
           /\ \A j \in Fields :
                 SumVals(Get(daily', d))[j]
                    = (IF Has(daily, d) THEN SumVals(Get(daily, d))[j] ELSE 0) + v[j]
           /\ (\A i \in 1..Len(records) : \A j \in Fields :
                   RecVals(records[i])[j] >= 0)
              => \A e \in KeySet(daily) : \A j \in Fields :
                    SumVals(Get(daily', e))[j] >= SumVals(Get(daily, e))[j]

\* C8: every summary in the mapping holds all six fields at every step; a
\* turn of the aggregation loop touches the summary of the record's date
\* only, which becomes the record's values if the date is new (zero plus the
\* record) and the old totals plus the record's values otherwise; with no
\* negative input value no stored total decreases.
C8_SummarySteps == []C8_FullKeys /\ [][C8_Turn]_vars

\* C8 witness: three records, none negative, are processed into two dates.
C8_Witness ==
    /\ prog = "D" /\ pc = "D_agg" /\ idx = 4
    /\ Len(daily) = 2
    /\ \A i \in 1..3 : \A j \in Fields : RecVals(records[i])[j] >= 0

\* C9: the input handle is open only inside the with block of read_data and
\* the output handle only inside that of write_report; a run that has ended,
\* by its end or by an exception, holds no open handle.
C9_HandlesClosed ==
    handles = (IF pc \in {"D_read", "E_header", "E_rows"} THEN {"in"} ELSE {})
              \cup (IF pc \in {"E_wsections", "E_wsummary", "E_wclose"}
                    THEN {"out"} ELSE {})

\* C9 witness: a conversion failure ended Task E's read after a record had
\* been parsed from the file.
C9_Witness ==
    /\ prog = "E" /\ fault = "ValueError"
    /\ rd_out # <<>> /\ pos > 2

\* C10: summary.txt is opened only once all the weeks of week_files are read,
\* totalled and formatted; a run ended by an exception leaves summary.txt as
\* it was; a finished report holds the sections of all the weeks, in the
\* order processed, and a summary row for each.
C10_WriteAfterAllWeeks ==
    /\ (summary_txt # summary_old \/ "out" \in handles) =>
          /\ prog = "E" /\ fault = "none"
          /\ Len(week_sections) = Len(week_files)
          /\ KeySet(weekly_totals) = Range(week_files)
    /\ pc = "aborted" => summary_txt = summary_old
    /\ prog = "E" /\ pc = "done" =>
          LET titles == SelectSeq(summary_txt.text, IsTitle)
          IN /\ [i \in 1..Len(titles) |-> titles[i].week] = week_files \o <<0>>
             /\ Len(SelectSeq(summary_txt.text, IsWeekRow)) = Len(week_files)

\* C10 witness: the third week's file had a bad row; the two sections made
\* are dropped and the old report stands.
C10_Witness ==
    /\ prog = "E" /\ pc = "aborted" /\ fault = "ValueError"
    /\ wi = 3 /\ Len(week_sections) = 2
    /\ summary_old = OldReport /\ summary_txt = OldReport

====
